---- MODULE Spec2Model ----
(***************************************************************************)
(* The poll loop of homework.py: main() calls clean_error_messages,        *)
(* logic_for_while_loop and time.sleep forever.  One action per call.      *)
(* A text (an exception message, a notification) is the sequence of the    *)
(* fragments that str.format joins: two texts are the same string exactly  *)
(* when the sequences are equal.                                           *)
(***************************************************************************)
EXTENDS Integers, Sequences, FiniteSets, TLC

VARIABLES
    pc,                  \* where main() stands: start, aborted, clean, logic, sleep, crashed
    env,                 \* the three environment values read at import
    timestamp,           \* main()'s local: the cursor of the next fetch
    sent_messages,       \* main()'s local: the error texts already sent
    clean_messages_date, \* main()'s local: when sent_messages is cleared next
    now,                 \* the wall clock (time.time(), datetime.today())
    cycle,               \* number of calls of logic_for_while_loop made
    sleeps,              \* number of calls of time.sleep made
    last,                \* the last call of logic_for_while_loop: its inputs and effects,
                         \* and whether it repeated the previous call's status notification
    dropped,             \* what clean_error_messages removed at the top of this cycle
    window               \* error texts put on the channel since the last clearing

vars == <<pc, env, timestamp, sent_messages, clean_messages_date, now,
          cycle, sleeps, last, dropped, window>>

----------------------------------------------------------------------------
\* Bounds of the model.

MaxCycles == 3
StartTime == 1600

\* Program constants.

RETRY_PERIOD == 600
DEFAULT_FROM_DATE == 0
OneDay == 86400

HOMEWORK_VERDICTS ==
    [approved  |-> "VERDICT_APPROVED",
     reviewing |-> "VERDICT_REVIEWING",
     rejected  |-> "VERDICT_REJECTED"]

None == "<None>"

----------------------------------------------------------------------------
\* Exceptions: a call either returns (exc = "") or raises exc with a text.

Returned == [exc |-> "", text |-> <<>>]

Raise(class, text) == [exc |-> class, text |-> text]

----------------------------------------------------------------------------
\* check_tokens: raises ValueError at the first missing or empty value.

TokenNames == {"TELEGRAM_TOKEN", "PRACTICUM_TOKEN", "TELEGRAM_CHAT_ID"}

\* Variant: only None is tested, the empty string passes.
check_tokens_OnlyNone(environ) ==
    IF \E t \in TokenNames : environ[t] = None
    THEN Raise("ValueError", <<"ENV_VARIABLE_ERROR_TEXT">>)
    ELSE Returned

check_tokens(environ) ==
    IF \E t \in TokenNames : environ[t] = "" \/ environ[t] = None
    THEN Raise("ValueError", <<"ENV_VARIABLE_ERROR_TEXT">>)
    ELSE Returned

----------------------------------------------------------------------------
\* send_message: one call of bot.send_message; an exception of the call is
\* logged and swallowed.  deliver says whether the channel accepts the call.

\* Variant: the except clause is missing, the channel's exception leaves.
send_message_Raises(message, deliver) ==
    [exc  |-> IF deliver THEN "" ELSE "TelegramError",
     sent |-> <<[text |-> message, ok |-> deliver]>>]

send_message(message, deliver) ==
    [exc  |-> "",
     sent |-> <<[text |-> message, ok |-> deliver]>>]

----------------------------------------------------------------------------
\* check_response on the decoded JSON value.

\* Variant: the type of the 'homeworks' value is not checked.
check_response_NoListCheck(response) ==
    IF response.type # "dict"
    THEN Raise("TypeError", <<"API_TYPE_ERROR_TEXT", response.type>>)
    ELSE IF "homeworks" \notin response.keys
    THEN Raise("KeyError", <<"MISSING_API_KEY_ERROR_TEXT", "homeworks">>)
    ELSE Returned

check_response(response) ==
    IF response.type # "dict"
    THEN Raise("TypeError", <<"API_TYPE_ERROR_TEXT", response.type>>)
    ELSE IF "homeworks" \notin response.keys
    THEN Raise("KeyError", <<"MISSING_API_KEY_ERROR_TEXT", "homeworks">>)
    ELSE IF response.homeworks_type # "list"
    THEN Raise("TypeError",
               <<"VALUE_NOT_LIST_ERROR_TEXT", "homeworks", response.homeworks_type>>)
    ELSE Returned

----------------------------------------------------------------------------
\* get_api_answer: http is what requests.get(...).json() did.

\* Variant: the HTTP status is not looked at.
get_api_answer_NoStatusCheck(ts, http) ==
    LET data == http.data IN
    IF http.raises
    THEN Raise("ConnectionError",
               <<"NETWORK_ERROR_TEXT", "Params=", ToString(ts), http.detail>>)
    ELSE IF data.type = "NoneType"
    THEN Raise("TypeError", <<"argument of type 'NoneType' is not iterable">>)
    ELSE IF data.type = "dict" /\ "error" \in data.keys
    THEN Raise("APIAnswerError", <<"Error:", data.error, "Code:", None>>)
    ELSE IF data.type = "dict" /\ "code" \in data.keys
    THEN Raise("NotAuthenticatedError",
               <<"Code:", data.code, "Message:", data.message>>)
    ELSE check_response(data)

get_api_answer(ts, http) ==
    LET data == http.data IN
    IF http.raises
    THEN Raise("ConnectionError",
               <<"NETWORK_ERROR_TEXT", "Params=", ToString(ts), http.detail>>)
    ELSE IF data.type = "NoneType"
    THEN Raise("TypeError", <<"argument of type 'NoneType' is not iterable">>)
    ELSE IF data.type = "dict" /\ "error" \in data.keys
    THEN Raise("APIAnswerError", <<"Error:", data.error, "Code:", None>>)
    ELSE IF data.type = "dict" /\ "code" \in data.keys
    THEN Raise("NotAuthenticatedError",
               <<"Code:", data.code, "Message:", data.message>>)
    ELSE IF http.status_code # 200
    THEN Raise("UnknownAPIAnswerError",
               <<"UNKNOWN_API_ERROR_TEXT", "Params=", ToString(ts), "">>)
    ELSE check_response(data)

----------------------------------------------------------------------------
\* parse_status on one record of the 'homeworks' list.

\* Variant: a status without a verdict is passed on instead of raised.
parse_status_UnknownIgnored(homework) ==
    IF "homework_name" \notin DOMAIN homework
    THEN Raise("KeyError", <<"MISSING_API_KEY_ERROR_TEXT", "homework_name">>)
    ELSE IF "status" \notin DOMAIN homework
    THEN Raise("KeyError", <<"MISSING_API_KEY_ERROR_TEXT", "status">>)
    ELSE [exc  |-> "",
          text |-> <<"STATUS_TEXT", homework["homework_name"],
                     IF homework["status"] \in DOMAIN HOMEWORK_VERDICTS
                     THEN HOMEWORK_VERDICTS[homework["status"]]
                     ELSE None>>]

parse_status(homework) ==
    IF "homework_name" \notin DOMAIN homework
    THEN Raise("KeyError", <<"MISSING_API_KEY_ERROR_TEXT", "homework_name">>)
    ELSE IF "status" \notin DOMAIN homework
    THEN Raise("KeyError", <<"MISSING_API_KEY_ERROR_TEXT", "status">>)
    ELSE IF homework["status"] \notin DOMAIN HOMEWORK_VERDICTS
    THEN Raise("StatusError",
               <<"NOT_CORRECT_STATUS_ERROR_TEXT", homework["status"]>>)
    ELSE [exc  |-> "",
          text |-> <<"STATUS_TEXT", homework["homework_name"],
                     HOMEWORK_VERDICTS[homework["status"]]>>]

----------------------------------------------------------------------------
\* get_from_date: the try block, the else block, and the finally block
\* whose return replaces whatever the other blocks returned or raised.

get_from_date_try(api_answer) ==
    IF "current_date" \notin api_answer.keys
    THEN Raise("KeyError", <<"MISSING_API_KEY_ERROR_TEXT", "current_date">>)
    ELSE IF api_answer.current_date_type # "int"
    THEN Raise("TypeError",
               <<"CURRENT_DATE_TYPE_ERROR_TEXT", api_answer.current_date_type>>)
    ELSE Returned

get_from_date_else(api_answer) == api_answer.current_date

\* Variant: no finally block; the else block's return stands.
get_from_date_NoFinally(api_answer) ==
    IF get_from_date_try(api_answer).exc = ""
    THEN get_from_date_else(api_answer)
    ELSE DEFAULT_FROM_DATE

get_from_date(api_answer) ==
    LET tried    == get_from_date_try(api_answer)
        \* the return of the else block, executed when the try block raised nothing
        returns  == IF tried.exc = "" THEN <<get_from_date_else(api_answer)>>
                                      ELSE <<>>
        \* finally: return DEFAULT_FROM_DATE, executed on every path; it also
        \* discards the TypeError no except clause caught
        executed == Append(returns, DEFAULT_FROM_DATE)
    IN  executed[Len(executed)]

----------------------------------------------------------------------------
\* send_error_message: messages is the list of texts already sent.

InList(message, messages) == \E i \in 1..Len(messages) : messages[i] = message

\* Variant: the text is recorded only when the channel accepted it.
send_error_message_OnlyIfDelivered(message, messages, deliver) ==
    IF ~InList(message, messages)
    THEN LET s == send_message(message, deliver) IN
         [exc |-> s.exc,
          messages |-> IF deliver THEN Append(messages, message) ELSE messages,
          sent |-> s.sent]
    ELSE [exc |-> "", messages |-> messages, sent |-> <<>>]

\* Variant: the membership test is missing.
send_error_message_NoCheck(message, messages, deliver) ==
    LET s == send_message(message, deliver) IN
    [exc |-> s.exc, messages |-> Append(messages, message), sent |-> s.sent]

send_error_message(message, messages, deliver) ==
    IF ~InList(message, messages)
    THEN LET s == send_message(message, deliver) IN
         IF s.exc # ""
         THEN [exc |-> s.exc, messages |-> messages, sent |-> s.sent]
         ELSE [exc |-> "", messages |-> Append(messages, message), sent |-> s.sent]
    ELSE [exc |-> "", messages |-> messages, sent |-> <<>>]

----------------------------------------------------------------------------
\* logic_for_while_loop.  Tag(kind, sent) marks what a send was made for.

Tag(kind, sent) ==
    [i \in 1..Len(sent) |-> [kind |-> kind, text |-> sent[i].text, ok |-> sent[i].ok]]

\* The exception classes whose handlers use STANDARD_ERROR_LOG_TEXT; every
\* other Exception reaches the last handler.
NamedHandlers ==
    {"APIAnswerError", "UnknownAPIAnswerError", "NotAuthenticatedError",
     "StatusError", "TypeError", "KeyError"}

\* Variant: an empty list is raised as EmptyHomeworksListException.
logic_try_EmptyRaises(ts, http, deliver) ==
    LET api_answer == get_api_answer(ts, http)
        homework   == http.data.homeworks
        parsed     == parse_status(homework[1])
        notified   == send_message(parsed.text, deliver)
    IN  IF api_answer.exc # ""
        THEN [exc |-> api_answer.exc, text |-> api_answer.text,
              sent |-> <<>>, ret |-> DEFAULT_FROM_DATE]
        ELSE IF Len(homework) = 0
        THEN [exc |-> "EmptyHomeworksListException", text |-> <<"NO_NEW_STATUS_EXC">>,
              sent |-> <<>>, ret |-> DEFAULT_FROM_DATE]
        ELSE IF parsed.exc # ""
        THEN [exc |-> parsed.exc, text |-> parsed.text,
              sent |-> <<>>, ret |-> DEFAULT_FROM_DATE]
        ELSE [exc |-> "", text |-> <<>>,
              sent |-> Tag("status", notified.sent),
              ret |-> get_from_date(http.data)]

\* Variant: the last record of the list is parsed instead of homework[0].
logic_try_LastRecord(ts, http, deliver) ==
    LET api_answer == get_api_answer(ts, http)
        homework   == http.data.homeworks
        parsed     == parse_status(homework[Len(homework)])
        notified   == send_message(parsed.text, deliver)
    IN  IF api_answer.exc # ""
        THEN [exc |-> api_answer.exc, text |-> api_answer.text,
              sent |-> <<>>, ret |-> DEFAULT_FROM_DATE]
        ELSE IF Len(homework) = 0
        THEN [exc |-> "", text |-> <<>>, sent |-> <<>>,
              ret |-> get_from_date(http.data)]
        ELSE IF parsed.exc # ""
        THEN [exc |-> parsed.exc, text |-> parsed.text,
              sent |-> <<>>, ret |-> DEFAULT_FROM_DATE]
        ELSE [exc |-> "", text |-> <<>>,
              sent |-> Tag("status", notified.sent),
              ret |-> get_from_date(http.data)]

\* The try block: [exc, text, sent, ret].
logic_try(ts, http, deliver) ==
    LET api_answer == get_api_answer(ts, http)
        homework   == http.data.homeworks
        parsed     == parse_status(homework[1])
        notified   == send_message(parsed.text, deliver)
    IN  IF api_answer.exc # ""
        THEN [exc |-> api_answer.exc, text |-> api_answer.text,
              sent |-> <<>>, ret |-> DEFAULT_FROM_DATE]
        ELSE IF Len(homework) > 0
        THEN IF parsed.exc # ""
             THEN [exc |-> parsed.exc, text |-> parsed.text,
                   sent |-> <<>>, ret |-> DEFAULT_FROM_DATE]
             ELSE IF notified.exc # ""
             THEN [exc |-> notified.exc, text |-> <<"TelegramError">>,
                   sent |-> Tag("status", notified.sent), ret |-> DEFAULT_FROM_DATE]
             ELSE [exc |-> "", text |-> <<>>,
                   sent |-> Tag("status", notified.sent),
                   ret |-> get_from_date(http.data)]
        ELSE [exc |-> "", text |-> <<>>, sent |-> <<>>,
              ret |-> get_from_date(http.data)]

\* Variant: the status notification goes through the sent list as the error
\* texts do.
logic_for_while_loop_DedupStatus(ts, http, deliver, messages) ==
    LET body    == logic_try(ts, http, deliver)
        message == <<IF body.exc \in NamedHandlers
                     THEN "STANDARD_ERROR_LOG_TEXT"
                     ELSE "LOG_TEXT_FOR_UNKNOWN_ERROR">> \o body.text
        handled == send_error_message(message, messages, deliver)
    IN  IF body.exc = "" /\ body.sent = <<>>
        THEN [ret |-> body.ret, messages |-> messages, sends |-> <<>>,
              outcome |-> "success", error |-> <<>>, escaped |-> FALSE]
        ELSE IF body.exc = ""
        THEN [ret |-> body.ret,
              messages |-> IF InList(body.sent[1].text, messages)
                           THEN messages
                           ELSE Append(messages, body.sent[1].text),
              sends |-> IF InList(body.sent[1].text, messages)
                        THEN <<>> ELSE body.sent,
              outcome |-> "success", error |-> <<>>, escaped |-> FALSE]
        ELSE [ret |-> DEFAULT_FROM_DATE, messages |-> handled.messages,
              sends |-> body.sent \o Tag("error", handled.sent),
              outcome |-> "error", error |-> message,
              escaped |-> handled.exc # ""]

\* The whole function: [ret, messages, sends, outcome, escaped].
logic_for_while_loop(ts, http, deliver, messages) ==
    LET body    == logic_try(ts, http, deliver)
        message == <<IF body.exc \in NamedHandlers
                     THEN "STANDARD_ERROR_LOG_TEXT"
                     ELSE "LOG_TEXT_FOR_UNKNOWN_ERROR">> \o body.text
        handled == send_error_message(message, messages, deliver)
    IN  IF body.exc = ""
        THEN [ret |-> body.ret, messages |-> messages, sends |-> body.sent,
              outcome |-> "success", error |-> <<>>, escaped |-> FALSE]
        ELSE [ret |-> DEFAULT_FROM_DATE, messages |-> handled.messages,
              sends |-> body.sent \o Tag("error", handled.sent),
              outcome |-> "error", error |-> message,
              escaped |-> handled.exc # ""]

----------------------------------------------------------------------------
\* clean_error_messages: [date, messages, cleared].

\* Variant: messages.clear() is missing.
clean_error_messages_NoClear(clean_date, messages, today) ==
    IF today >= clean_date
    THEN [date |-> today + OneDay, messages |-> messages, cleared |-> FALSE]
    ELSE [date |-> clean_date, messages |-> messages, cleared |-> FALSE]

clean_error_messages(clean_date, messages, today) ==
    IF today >= clean_date
    THEN [date |-> today + OneDay, messages |-> <<>>, cleared |-> TRUE]
    ELSE [date |-> clean_date, messages |-> messages, cleared |-> FALSE]

----------------------------------------------------------------------------
\* What the environment can hand to the program.

TokenValues == {None, "", "token"}

HwApproved  == [homework_name |-> "HW1", status |-> "approved"]
HwReviewing == [homework_name |-> "HW1", status |-> "reviewing"]
HwRejected  == [homework_name |-> "HW2", status |-> "rejected"]
HwUnknown   == [homework_name |-> "HW2", status |-> "unknown_status"]
HwNoName    == [status |-> "approved"]
HwNoStatus  == [homework_name |-> "HW1"]
HwEmpty     == [key \in {} |-> ""]

Heads ==
    {HwApproved, HwReviewing, HwRejected, HwUnknown, HwNoName, HwNoStatus, HwEmpty}

TwoHeads == {HwApproved, HwUnknown}

Tails == {HwRejected, HwUnknown}

Dict(keys, hw_type, hw, cd_type, cd) ==
    [type |-> "dict", keys |-> keys,
     homeworks_type |-> hw_type, homeworks |-> hw,
     current_date_type |-> cd_type, current_date |-> cd,
     error |-> "error detail", code |-> "not_authenticated",
     message |-> "bad token"]

NotDict(type) ==
    [type |-> type, keys |-> {},
     homeworks_type |-> "NoneType", homeworks |-> <<>>,
     current_date_type |-> "NoneType", current_date |-> DEFAULT_FROM_DATE,
     error |-> "", code |-> "", message |-> ""]

Answered(status_code, data) ==
    [raises |-> FALSE, detail |-> "", status_code |-> status_code, data |-> data]

CurrentDates == {1700, 1800}

\* Responses of the documented shape.
GoodAnswers ==
    { Answered(200, Dict({"homeworks", "current_date"}, "list", <<>>, "int", cd)) :
        cd \in CurrentDates }
    \cup
    { Answered(200, Dict({"homeworks", "current_date"}, "list", hw, "int", 1800)) :
        hw \in { <<h>> : h \in Heads }
               \cup { <<h, t>> : h \in TwoHeads, t \in Tails } }
    \cup
    { Answered(200, Dict({"homeworks"}, "list", hw, "NoneType", DEFAULT_FROM_DATE)) :
        hw \in {<<>>, <<HwApproved>>, <<HwUnknown>>} }
    \cup
    { Answered(200, Dict({"homeworks", "current_date"}, "list", <<>>, "str", DEFAULT_FROM_DATE)) }

\* Responses that get_api_answer rejects.
BadAnswers ==
    { [raises |-> TRUE, detail |-> "timeout", status_code |-> 200,
       data |-> NotDict("NoneType")],
      Answered(200, Dict({"error"}, "NoneType", <<>>, "NoneType", DEFAULT_FROM_DATE)),
      Answered(200, Dict({"code", "message"}, "NoneType", <<>>, "NoneType", DEFAULT_FROM_DATE)),
      Answered(401, Dict({"code", "message"}, "NoneType", <<>>, "NoneType", DEFAULT_FROM_DATE)),
      Answered(500, Dict({"homeworks", "current_date"}, "list", <<>>, "int", 1700)),
      Answered(200, Dict({"current_date"}, "NoneType", <<>>, "int", 1700)),
      Answered(200, Dict({"homeworks"}, "str", <<>>, "NoneType", DEFAULT_FROM_DATE)),
      Answered(200, Dict({"homeworks"}, "dict", <<>>, "NoneType", DEFAULT_FROM_DATE)),
      Answered(200, Dict({"homeworks"}, "NoneType", <<>>, "NoneType", DEFAULT_FROM_DATE)),
      Answered(200, NotDict("list")) }

HttpResults == GoodAnswers \cup BadAnswers

\* How long the fetch and the send of one cycle block the loop.
Latencies == {0, OneDay}

NoCycle ==
    [cursor |-> DEFAULT_FROM_DATE, http |-> Answered(200, NotDict("NoneType")),
     outcome |-> "none", error |-> <<>>, sends |-> <<>>, repeated |-> FALSE]

----------------------------------------------------------------------------
\* main()

Init ==
    /\ pc = "start"
    /\ env \in [TokenNames -> TokenValues]
    /\ timestamp = DEFAULT_FROM_DATE          \* not assigned before line 352
    /\ sent_messages = <<>>
    /\ clean_messages_date = StartTime        \* not assigned before line 353
    /\ now = StartTime
    /\ cycle = 0
    /\ sleeps = 0
    /\ last = NoCycle
    /\ dropped = <<>>
    /\ window = <<>>

\* Lines 349-353 with check_tokens raising: main() ends.
StartupFails ==
    /\ pc = "start"
    /\ check_tokens(env).exc # ""
    /\ pc' = "aborted"
    /\ UNCHANGED <<env, timestamp, sent_messages, clean_messages_date, now,
                   cycle, sleeps, last, dropped, window>>

\* Lines 349-353 with check_tokens returning.
Startup ==
    /\ pc = "start"
    /\ check_tokens(env).exc = ""
    /\ timestamp' = now
    /\ clean_messages_date' = now + OneDay
    /\ pc' = "clean"
    /\ UNCHANGED <<env, sent_messages, now, cycle, sleeps, last, dropped, window>>

\* Lines 355-357.
CleanErrorMessages ==
    /\ pc = "clean"
    /\ cycle < MaxCycles
    /\ LET r == clean_error_messages(clean_messages_date, sent_messages, now) IN
        /\ clean_messages_date' = r.date
        /\ sent_messages' = r.messages
        /\ dropped' = IF r.cleared THEN sent_messages ELSE <<>>
        /\ window' = IF r.cleared THEN <<>> ELSE window
    /\ pc' = "logic"
    /\ UNCHANGED <<env, timestamp, now, cycle, sleeps, last>>

ErrorTexts(sends) ==
    LET idx == {i \in 1..Len(sends) : sends[i].kind = "error"}
        RECURSIVE pick(_)
        pick(i) == IF i > Len(sends) THEN <<>>
                   ELSE IF i \in idx THEN <<sends[i].text>> \o pick(i + 1)
                   ELSE pick(i + 1)
    IN  pick(1)

\* Both calls attempted a status notification, with the same text.
SameStatusText(before, after) ==
    /\ before # <<>> /\ after # <<>>
    /\ before[1].kind = "status" /\ after[1].kind = "status"
    /\ before[1].text = after[1].text

\* Line 358.
LogicForWhileLoop ==
    /\ pc = "logic"
    /\ \E http \in HttpResults, deliver \in BOOLEAN, elapsed \in Latencies :
        LET r == logic_for_while_loop(timestamp, http, deliver, sent_messages) IN
        /\ timestamp' = r.ret
        /\ sent_messages' = r.messages
        /\ last' = [cursor |-> timestamp, http |-> http, outcome |-> r.outcome,
                    error |-> r.error, sends |-> r.sends,
                    repeated |-> SameStatusText(last.sends, r.sends)]
        /\ window' = window \o ErrorTexts(r.sends)
        /\ now' = now + elapsed
        /\ pc' = IF r.escaped THEN "crashed" ELSE "sleep"
    /\ cycle' = cycle + 1
    /\ UNCHANGED <<env, clean_messages_date, sleeps, dropped>>

\* Line 359.
Sleep ==
    /\ pc = "sleep"
    /\ now' = now + RETRY_PERIOD
    /\ sleeps' = sleeps + 1
    /\ pc' = "clean"
    /\ UNCHANGED <<env, timestamp, sent_messages, clean_messages_date,
                   cycle, last, dropped, window>>

Next ==
    \/ StartupFails
    \/ Startup
    \/ CleanErrorMessages
    \/ LogicForWhileLoop
    \/ Sleep

Spec == Init /\ [][Next]_vars

----------------------------------------------------------------------------
\* Vocabulary of the properties.  After a call of logic_for_while_loop the
\* program stands at pc = "sleep" (or "crashed"), last describes that call
\* and timestamp is the cursor the next fetch will use.

CycleDone == pc \in {"sleep", "crashed"} /\ cycle >= 1

\* get_api_answer returned the response to the loop.
Fetched == last.outcome # "none" /\ get_api_answer(last.cursor, last.http).exc = ""

Homeworks == last.http.data.homeworks

ErrorSends == {i \in 1..Len(last.sends) : last.sends[i].kind = "error"}

StatusSends == {i \in 1..Len(last.sends) : last.sends[i].kind = "status"}

\* Both keys present and the status one of the three verdicts.
Parses(h) ==
    /\ {"homework_name", "status"} \subseteq DOMAIN h
    /\ h["status"] \in DOMAIN HOMEWORK_VERDICTS

LogicStep == pc = "logic" /\ pc' # "logic"

CleanStep == pc = "clean" /\ pc' = "logic"

----------------------------------------------------------------------------
\* C1: the cursor a cycle fetches with is never smaller than the cursor the
\* previous cycle fetched with.
C1_CursorNeverDecreases ==
    CycleDone => timestamp >= last.cursor

\* C2: a failing cycle leaves the cursor as it was before the cycle.
C2_FailedCycleKeepsCursor ==
    (CycleDone /\ last.outcome = "error") => timestamp = last.cursor

\* C3: after a successful cycle whose response carries an integer
\* current_date d, the next fetch uses d as its cursor.
C3_CursorAdvancesToCurrentDate ==
    (CycleDone /\ last.outcome = "success"
        /\ "current_date" \in last.http.data.keys
        /\ last.http.data.current_date_type = "int")
    => timestamp = last.http.data.current_date

\* C4: after a successful cycle whose response has no current_date key the
\* cursor keeps its previous value.
C4_MissingCurrentDateKeepsCursor ==
    (CycleDone /\ last.outcome = "success"
        /\ "current_date" \notin last.http.data.keys)
    => timestamp = last.cursor

\* C5: between two clearings of the sent-error list no error text is put on
\* the channel twice: the texts sent since the last clearing are distinct.
C5_ErrorTextOncePerWindow ==
    \A i, j \in 1..Len(window) : window[i] = window[j] => i = j

\* C5 witness: the cycle just done failed with a text that was sent earlier
\* in this window, and put nothing on the channel.
C5_Witness ==
    /\ CycleDone /\ cycle >= 2
    /\ last.outcome = "error"
    /\ last.sends = <<>>
    /\ InList(last.error, window)

\* C6: an error text whose delivery failed is not in the sent-error list
\* after the cycle.
C6_InsertedOnlyIfDelivered ==
    CycleDone =>
        \A i \in ErrorSends :
            ~last.sends[i].ok => ~InList(last.sends[i].text, sent_messages)

\* C7: no error of a cycle leaves logic_for_while_loop or stops the loop:
\* the call is always followed by the sleep, the sleep lasts RETRY_PERIOD and
\* is followed by the top of the loop, which is followed by the next fetch,
\* and none of these steps is ever blocked (up to the model's MaxCycles);
\* as many sleeps as cycles have run whenever a fetch is about to start.
C7_SleepThenNextFetch ==
    /\ [](pc # "crashed")
    /\ [](pc \in {"clean", "logic"} => sleeps = cycle)
    /\ [](pc = "sleep" => cycle = sleeps + 1)
    /\ [][pc = "logic" => pc' = "sleep"]_vars
    /\ [][pc = "sleep" => pc' = "clean" /\ now' = now + RETRY_PERIOD]_vars
    /\ [][pc = "clean" => pc' = "logic"]_vars
    /\ []((pc \in {"logic", "sleep"} \/ (pc = "clean" /\ cycle < MaxCycles))
            => ENABLED Next)

\* C7 witness: a cycle failed and the delivery of its error text failed too;
\* the loop slept and stands at the next fetch.
C7_Witness ==
    /\ pc = "logic" /\ cycle >= 2 /\ sleeps = cycle
    /\ last.outcome = "error"
    /\ \E i \in ErrorSends : ~last.sends[i].ok

\* C8: a persistent error is never suppressed for longer than the current
\* window.  clean_error_messages empties the list as soon as a cycle starts
\* at or after the clean date and sets the next clean date one day later; the
\* clean date is never more than one day ahead of the clock, which every
\* sleep advances; and a failing cycle whose text is not in the list puts
\* the text on the channel.
C8_PersistentErrorAnnouncedAgain ==
    /\ [](pc \in {"clean", "logic", "sleep"} => clean_messages_date <= now + OneDay)
    /\ [][CleanStep =>
            IF now >= clean_messages_date
            THEN sent_messages' = <<>> /\ clean_messages_date' = now + OneDay
            ELSE sent_messages' = sent_messages
                 /\ clean_messages_date' = clean_messages_date]_vars
    /\ [][pc = "sleep" => now' > now]_vars
    /\ [][(LogicStep /\ last'.outcome = "error"
                     /\ ~InList(last'.error, sent_messages))
            => \E i \in 1..Len(last'.sends) :
                    /\ last'.sends[i].kind = "error"
                    /\ last'.sends[i].text = last'.error]_vars

\* C8 witness: the text of the failing cycle was in the list that the
\* clearing at the top of this cycle removed, and the cycle put it on the
\* channel again.
C8_Witness ==
    /\ CycleDone /\ last.outcome = "error"
    /\ InList(last.error, dropped)
    /\ window = <<last.error>>
    /\ \E i \in ErrorSends : last.sends[i].text = last.error

\* C9: a cycle whose fetched response has an empty homeworks list puts
\* nothing on the channel, leaves the sent-error list alone and succeeds.
C9_EmptyListSendsNothing ==
    [][(LogicStep /\ get_api_answer(last'.cursor, last'.http).exc = ""
                  /\ last'.http.data.homeworks = <<>>)
        => /\ last'.sends = <<>>
           /\ last'.outcome = "success"
           /\ sent_messages' = sent_messages
           /\ window' = window
           /\ pc' = "sleep"]_vars

\* C9 witness: such a cycle ran while the sent-error list was not empty.
C9_Witness ==
    /\ CycleDone /\ Fetched /\ Homeworks = <<>>
    /\ last.sends = <<>>
    /\ sent_messages # <<>>

\* C10 as stated: every cycle whose fetched response has a non-empty list
\* attempts exactly one status notification, built from element 0.
C10_AlwaysOneStatusNotification ==
    (CycleDone /\ Fetched /\ Homeworks # <<>>)
    => /\ Len(last.sends) = 1
       /\ last.sends[1].kind = "status"
       /\ Parses(Homeworks[1])
       /\ last.sends[1].text =
            <<"STATUS_TEXT", Homeworks[1]["homework_name"],
              HOMEWORK_VERDICTS[Homeworks[1]["status"]]>>

\* C10 amended: element 0 alone decides the cycle.  If it parses, exactly one
\* send is attempted, a status notification built from its name and its
\* verdict, and the cycle succeeds; if it does not parse, no status
\* notification is attempted and the cycle fails with element 0's error.
\* Elements 1..n appear in neither case.
C10_OnlyElementZero ==
    (CycleDone /\ Fetched /\ Homeworks # <<>>)
    => IF Parses(Homeworks[1])
       THEN /\ Len(last.sends) = 1
            /\ last.sends[1].kind = "status"
            /\ last.sends[1].text =
                 <<"STATUS_TEXT", Homeworks[1]["homework_name"],
                   HOMEWORK_VERDICTS[Homeworks[1]["status"]]>>
            /\ last.outcome = "success"
       ELSE /\ StatusSends = {}
            /\ last.outcome = "error"
            /\ last.error = <<"STANDARD_ERROR_LOG_TEXT">>
                            \o parse_status(Homeworks[1]).text

\* C10 witness: element 0 parses, element 1 has an unknown status, and the
\* one send of the cycle is element 0's status notification.
C10_Witness ==
    /\ CycleDone /\ Fetched
    /\ Homeworks = <<HwApproved, HwUnknown>>
    /\ Len(last.sends) = 1 /\ last.sends[1].kind = "status"
    /\ last.outcome = "success"

\* The verdict texts of lines 28-32, written out for the properties.
VerdictOf(status) ==
    CASE status = "approved"  -> "VERDICT_APPROVED"
      [] status = "reviewing" -> "VERDICT_REVIEWING"
      [] status = "rejected"  -> "VERDICT_REJECTED"

KnownStatuses == {"approved", "reviewing", "rejected"}

\* C11: parse_status on the record the cycle hands it (element 0 of a fetched,
\* non-empty list): a KeyError naming homework_name when that key is absent,
\* a KeyError naming status when only that key is absent, a StatusError
\* naming the status when it is none of approved, reviewing, rejected, and
\* in these three cases the cycle fails with that text and attempts no
\* status notification; otherwise a text holding the record's name and the
\* verdict of exactly its status, which the cycle sends.
C11_ParseStatus ==
    (CycleDone /\ Fetched /\ Homeworks # <<>>) =>
        LET h == Homeworks[1]
            p == parse_status(h)
            failed(text) ==
                /\ StatusSends = {}
                /\ last.outcome = "error"
                /\ last.error = <<"STANDARD_ERROR_LOG_TEXT">> \o text
        IN  IF "homework_name" \notin DOMAIN h
            THEN /\ p.exc = "KeyError"
                 /\ p.text = <<"MISSING_API_KEY_ERROR_TEXT", "homework_name">>
                 /\ failed(p.text)
            ELSE IF "status" \notin DOMAIN h
            THEN /\ p.exc = "KeyError"
                 /\ p.text = <<"MISSING_API_KEY_ERROR_TEXT", "status">>
                 /\ failed(p.text)
            ELSE IF h["status"] \notin KnownStatuses
            THEN /\ p.exc = "StatusError"
                 /\ p.text = <<"NOT_CORRECT_STATUS_ERROR_TEXT", h["status"]>>
                 /\ failed(p.text)
            ELSE /\ p.exc = ""
                 /\ \E i, j \in 1..Len(p.text) :
                        /\ p.text[i] = h["homework_name"]
                        /\ p.text[j] = VerdictOf(h["status"])
                 /\ Len(last.sends) = 1
                 /\ last.sends[1].kind = "status"
                 /\ last.sends[1].text = p.text

\* C11 witness: element 0 carries a status without a verdict; the cycle
\* failed with the StatusError text and sent it as an error notification.
C11_Witness ==
    /\ CycleDone /\ Fetched /\ Homeworks # <<>>
    /\ Homeworks[1] = HwUnknown
    /\ last.outcome = "error"
    /\ \E i \in ErrorSends :
          last.sends[i].text =
            <<"STANDARD_ERROR_LOG_TEXT", "NOT_CORRECT_STATUS_ERROR_TEXT",
              "unknown_status">>

\* get_api_answer got as far as its call of check_response (line 216).
ShapeChecked ==
    /\ last.outcome # "none"
    /\ ~last.http.raises
    /\ last.http.data.type # "NoneType"
    /\ ~(last.http.data.type = "dict"
         /\ last.http.data.keys \cap {"error", "code"} # {})
    /\ last.http.status_code = 200

\* C12: check_response on the decoded value of the cycle: a TypeError when
\* the value is not a mapping, a KeyError when the 'homeworks' key is
\* absent, a TypeError when its value is a string, a map or null; every
\* mapping whose 'homeworks' value is a list passes, the empty list
\* included.  When get_api_answer got as far as calling it, the cycle fails
\* with that text, or the response reaches the loop.
C12_CheckResponse ==
    CycleDone =>
        LET d == last.http.data
            c == check_response(d)
            failed == ShapeChecked =>
                      /\ last.outcome = "error"
                      /\ last.sends \in {<<>>} \cup
                            {<<[kind |-> "error", text |-> last.error, ok |-> b]>> :
                                b \in BOOLEAN}
                      /\ last.error = <<"STANDARD_ERROR_LOG_TEXT">> \o c.text
        IN  IF d.type # "dict"
            THEN /\ c.exc = "TypeError"
                 /\ c.text = <<"API_TYPE_ERROR_TEXT", d.type>>
                 /\ failed
            ELSE IF "homeworks" \notin d.keys
            THEN /\ c.exc = "KeyError"
                 /\ c.text = <<"MISSING_API_KEY_ERROR_TEXT", "homeworks">>
                 /\ failed
            ELSE IF d.homeworks_type \in {"str", "dict", "NoneType"}
            THEN /\ c.exc = "TypeError"
                 /\ c.text = <<"VALUE_NOT_LIST_ERROR_TEXT", "homeworks",
                               d.homeworks_type>>
                 /\ failed
            ELSE /\ d.homeworks_type = "list"
                 /\ c.exc = ""
                 /\ ShapeChecked => Fetched
                 /\ (ShapeChecked /\ d.homeworks = <<>>) => last.outcome = "success"

\* C12 witness: the 'homeworks' key is present with the value null and the
\* cycle failed with the TypeError of check_response.
C12_Witness ==
    /\ CycleDone /\ ShapeChecked
    /\ "homeworks" \in last.http.data.keys
    /\ last.http.data.homeworks_type = "NoneType"
    /\ last.outcome = "error"
    /\ last.error = <<"STANDARD_ERROR_LOG_TEXT", "VALUE_NOT_LIST_ERROR_TEXT",
                      "homeworks", "NoneType">>

\* C13: a cycle whose status notification was refused by the channel ends
\* like the same cycle with the notification delivered: the exception does
\* not leave send_message, the one send of the cycle is the status
\* notification, no error text is sent or recorded, the cycle succeeds with
\* the same cursor, and main() goes on to the sleep.
C13_StatusDeliveryFailureNotFatal ==
    [][(LogicStep /\ \E i \in 1..Len(last'.sends) :
                        last'.sends[i].kind = "status" /\ ~last'.sends[i].ok)
        => LET delivered == logic_for_while_loop(timestamp, last'.http, TRUE,
                                                 sent_messages)
           IN  /\ send_message(last'.sends[1].text, FALSE).exc = ""
               /\ Len(last'.sends) = 1
               /\ last'.outcome = "success"
               /\ delivered.outcome = "success"
               /\ timestamp' = delivered.ret
               /\ sent_messages' = delivered.messages
               /\ sent_messages' = sent_messages
               /\ window' = window
               /\ pc' = "sleep"]_vars

\* C13 witness: the status notification of the previous cycle was refused
\* and the loop stands at the next fetch.
C13_Witness ==
    /\ pc = "logic" /\ cycle >= 1
    /\ last.outcome = "success"
    /\ \E i \in StatusSends : ~last.sends[i].ok

MissingCredential == \E t \in TokenNames : env[t] \in {"", None}

\* C14: with one of the three credentials missing or empty, check_tokens
\* raises and main() never reaches the loop: no cycle runs, nothing is
\* fetched and nothing is put on the channel; with all three present,
\* check_tokens returns and main() never ends at startup.
C14_MissingCredentialAbortsBeforeLoop ==
    /\ MissingCredential =>
          /\ check_tokens(env).exc = "ValueError"
          /\ pc \in {"start", "aborted"}
          /\ cycle = 0 /\ sleeps = 0
          /\ last = NoCycle
          /\ window = <<>> /\ sent_messages = <<>>
    /\ ~MissingCredential =>
          /\ check_tokens(env).exc = ""
          /\ pc # "aborted"

\* C14 witness: only the chat id is empty, and main() has ended at startup.
C14_Witness ==
    /\ pc = "aborted"
    /\ env["TELEGRAM_TOKEN"] = "token"
    /\ env["PRACTICUM_TOKEN"] = "token"
    /\ env["TELEGRAM_CHAT_ID"] = ""

\* C15: get_api_answer hands a response to the loop exactly when the HTTP
\* status is 200, the payload is a mapping with neither an 'error' nor a
\* 'code' key, and check_response accepts it.  A payload with an 'error'
\* key raises APIAnswerError and one with a 'code' key raises
\* NotAuthenticatedError, inside an HTTP 200 too; any other payload with a
\* status other than 200 raises UnknownAPIAnswerError.  A call that raised
\* makes the cycle fail with its text: no status notification, no success.
C15_BothFailureChannelsChecked ==
    CycleDone =>
        LET h == last.http
            d == h.data
            a == get_api_answer(last.cursor, h)
            embedded == d.type = "dict" /\ d.keys \cap {"error", "code"} # {}
        IN  /\ a.exc = "" <=>
                    /\ ~h.raises
                    /\ h.status_code = 200
                    /\ d.type = "dict"
                    /\ ~embedded
                    /\ check_response(d).exc = ""
            /\ last.outcome = "success" => a.exc = ""
            /\ (~h.raises /\ d.type = "dict" /\ "error" \in d.keys)
                    => a.exc = "APIAnswerError"
            /\ (~h.raises /\ d.type = "dict" /\ "code" \in d.keys
                          /\ "error" \notin d.keys)
                    => a.exc = "NotAuthenticatedError"
            /\ (~h.raises /\ d.type # "NoneType" /\ ~embedded
                          /\ h.status_code # 200)
                    => a.exc = "UnknownAPIAnswerError"
            /\ a.exc # "" =>
                    /\ last.outcome = "error"
                    /\ StatusSends = {}
                    /\ last.error =
                         <<IF a.exc \in NamedHandlers
                           THEN "STANDARD_ERROR_LOG_TEXT"
                           ELSE "LOG_TEXT_FOR_UNKNOWN_ERROR">> \o a.text

\* C15 witness: an HTTP 500 whose payload has the documented shape; the
\* cycle failed with the UnknownAPIAnswerError text.
C15_Witness ==
    /\ CycleDone
    /\ ~last.http.raises /\ last.http.status_code = 500
    /\ check_response(last.http.data).exc = ""
    /\ last.outcome = "error"
    /\ last.error[2] = "UNKNOWN_API_ERROR_TEXT"

\* C16: a cycle attempts at most one send on the channel: one status
\* notification, or one error notification, or nothing; a successful cycle
\* sends no error text and a failing cycle no status notification.
C16_AtMostOneSendPerCycle ==
    /\ Len(last.sends) <= 1
    /\ StatusSends = {} \/ ErrorSends = {}
    /\ last.outcome = "success" => ErrorSends = {}
    /\ last.outcome = "error" => StatusSends = {}

\* C16 witness: the status notification of the cycle was refused by the
\* channel, and it is the only send of the cycle.
C16_Witness ==
    /\ CycleDone
    /\ Len(last.sends) = 1
    /\ last.sends[1].kind = "status"
    /\ ~last.sends[1].ok
    /\ "current_date" \notin last.http.data.keys

IsPrefix(a, b) == Len(a) <= Len(b) /\ SubSeq(b, 1, Len(a)) = a

\* C17: the sent-error list holds no text twice; after a failing cycle the
\* text of its error is in the list, whether the cycle sent it (delivered or
\* not) or found it there; a call of logic_for_while_loop only appends to
\* the list, and the list loses entries only in clean_error_messages, which
\* empties it, at or after the clean date.
C17_SentErrorList ==
    /\ [](\A i, j \in 1..Len(sent_messages) :
              sent_messages[i] = sent_messages[j] => i = j)
    /\ []((CycleDone /\ last.outcome = "error")
              => InList(last.error, sent_messages))
    /\ []((CycleDone /\ last.outcome = "error" /\ ErrorSends = {})
              => InList(last.error, window))
    /\ [][LogicStep => IsPrefix(sent_messages, sent_messages')]_vars
    /\ [][~IsPrefix(sent_messages, sent_messages')
              => /\ CleanStep
                 /\ now >= clean_messages_date
                 /\ sent_messages' = <<>>]_vars

\* C17 witness: the error text of the failing cycle was refused by the
\* channel and stands in the list, after an older text.
C17_Witness ==
    /\ CycleDone /\ last.outcome = "error"
    /\ \E i \in ErrorSends : ~last.sends[i].ok
    /\ Len(sent_messages) >= 2
    /\ sent_messages[Len(sent_messages)] = last.error

C19_StatusNotDeduplicated ==
    [][LogicStep =>
        LET hw == last'.http.data.homeworks IN
        (get_api_answer(timestamp, last'.http).exc = "" /\ hw # <<>>
            /\ Parses(hw[1]))
        => /\ Len(last'.sends) = 1
           /\ last'.sends[1].kind = "status"
           /\ last'.sends[1].text =
                <<"STATUS_TEXT", hw[1]["homework_name"], VerdictOf(hw[1]["status"])>>
           /\ ~InList(last'.sends[1].text, sent_messages')
           /\ sent_messages' = sent_messages
           /\ window' = window
           /\ (/\ last.outcome = "success"
               /\ last.http.data.homeworks # <<>>
               /\ last.http.data.homeworks[1] = hw[1])
              => /\ last'.repeated
                 /\ last'.sends[1].text = last.sends[1].text]_vars

\* C19 witness: two cycles in a row attempted the same status notification
\* while the sent-error list held a text.
C19_Witness ==
    /\ CycleDone /\ cycle >= 3
    /\ last.repeated
    /\ sent_messages # <<>>

====
